---- MODULE Spec2Model ----
(***************************************************************************)
(* A model of the YouTubeDownloader class of src/api.py: the format        *)
(* normaliser of get_video_info, the quality ladder of                     *)
(* get_available_quality_options, sanitize_filename, the output template, *)
(* the download operations and the progress hook.                          *)
(*                                                                         *)
(* Python values are represented as follows.                               *)
(*   - an optional number (d.get('height')) is <<>> for None or a missing  *)
(*     key and <<n>> for the number n;                                     *)
(*   - an optional string is the string itself, Absent for a missing key;  *)
(*   - a str that the code inspects character by character is a sequence   *)
(*     of one-character strings;                                           *)
(*   - a path is a record of its components, each a sequence of strings.   *)
(***************************************************************************)
EXTENDS Integers, Sequences, FiniteSets, TLC

VARIABLES
    raw,          \* info['formats'] the extraction client holds for the URL
    fetch,        \* what extract_info did in the last operation: "none", "ok", "failed"
    title,        \* the title handed to sanitize_filename
    op,           \* the operation that ran last
    outcome,      \* "none", "returned" or "raised"
    formats,      \* VideoInfo.formats built by the last metadata fetch
    heights_iter, \* the order in which the set available_heights was iterated
    options,      \* the list returned by get_available_quality_options
    sanitized,    \* the string returned by sanitize_filename
    ffmpeg,       \* whether check_executable('ffmpeg') finds the tool on the host
    dirs,         \* the directories that exist on the host
    constructed,  \* whether YouTubeDownloader.__init__ has run
    args,         \* the arguments of the operation that ran last
    error,        \* the exception the last operation raised, NoError if none
    calls,        \* the calls the last operation made to the client and the host
    request,      \* <<ydl_opts>> of the download the last operation submitted
    template,     \* <<path>> returned by the last generate_output_template
    result_path,  \* <<path>> returned by the last download operation
    answer,       \* what the client and the file system answered to the last download
    progress_callback,  \* self.progress_callback: NoCallback or the callback set last
    event,        \* the dictionary d the client passes to _progress_hook
    delivered,    \* <<progress>> passed to the callback by the last hook call
    arrived,      \* the events the client has passed to the hook, in order
    invocations,  \* the calls of callbacks the hook has made, in order
    valid,        \* the value the last validate_url returned
    url_input,    \* the URL in the text input of the dashboard
    session,      \* st.session_state of the dashboard
    pc,           \* the block of streamlit_app.py the script run has reached
    run_log,      \* the downloader calls the current script run has made
    runs          \* the number of script runs that have ended

infovars == <<raw, fetch, title, op, outcome, formats, heights_iter, options, sanitized>>

dlvars ==
    <<ffmpeg, dirs, constructed, args, error, calls, request, template, result_path, answer>>

pgvars == <<progress_callback, event, delivered>>

rlvars == <<arrived, invocations, valid>>

uivars == <<url_input, session, pc, run_log, runs>>

vars == <<infovars, dlvars, pgvars, rlvars, uivars>>

-----------------------------------------------------------------------------
(* Bounds of the model *)

\* longest raw stream list with arbitrary stream order
MaxStreams == 3
\* largest number of streams in a raw list built for the quality ladder
MaxHeights == 3
\* longest title built from arbitrary characters
MaxTitleLen == 3
\* largest number of events the client passes to the hook in one behaviour
MaxEvents == 3
\* largest number of script runs of the dashboard in one behaviour
MaxRuns == 3

-----------------------------------------------------------------------------
(* Python helpers *)

Absent == "<absent>"

None == <<>>

Some(n) == <<n>>

\* truth value of an optional string: None and '' are falsy
TruthyStr(s) == s # Absent /\ s # ""

\* truth value of an optional number: None and 0 are falsy
TruthyNum(x) == x # None /\ x[1] # 0

\* `x or 0`
OrZero(x) == IF TruthyNum(x) THEN x[1] ELSE 0

\* d.get(key, 'N/A') for a string-valued key
GetOrNA(s) == IF s = Absent THEN "N/A" ELSE s

Abs(n) == IF n < 0 THEN -n ELSE n

Min(a, b) == IF a < b THEN a ELSE b

\* Python's ordering of tuples of numbers: lexicographic, a proper prefix first
TupleLess(a, b) ==
    \/ \E i \in 1..Min(Len(a), Len(b)) :
          /\ a[i] < b[i]
          /\ \A j \in 1..(i - 1) : a[j] = b[j]
    \/ /\ Len(a) < Len(b)
       /\ \A j \in 1..Len(a) : a[j] = b[j]

-----------------------------------------------------------------------------
(* get_video_info: the format normaliser *)

\* a filter that forgets the stream URL
DownloadableByIdOnly(f) == TruthyStr(f.format_id)

\* `if f.get('format_id') and f.get('url')`
Downloadable(f) == TruthyStr(f.format_id) /\ TruthyStr(f.url)

\* the dictionary format_details built for one raw stream
FormatDetails(f) ==
    [format_id |-> f.format_id,
     height    |-> f.height,
     tbr       |-> f.tbr,
     vcodec    |-> GetOrNA(f.vcodec),
     acodec    |-> GetOrNA(f.acodec)]

RECURSIVE AllFormats(_)
\* the list all_formats, in the order of the raw list
AllFormats(fs) ==
    IF fs = <<>> THEN <<>>
    ELSE LET rest == AllFormats(Tail(fs))
         IN  IF Downloadable(Head(fs))
             THEN <<FormatDetails(Head(fs))>> \o rest
             ELSE rest

is_video(f) == f.vcodec # "none"

is_audio(f) == f.acodec # "none"

\* a key that ranks audio-only streams above video-only streams
sort_key_audio_first(f) ==
    LET height == OrZero(f.height)
        tbr    == OrZero(f.tbr)
    IN  IF is_video(f) /\ is_audio(f) THEN <<3, height, tbr>>
        ELSE IF is_video(f) /\ ~is_audio(f) THEN <<1, height, tbr>>
        ELSE IF ~is_video(f) /\ is_audio(f) THEN <<2, tbr>>
        ELSE <<0>>

sort_key(f) ==
    LET height == OrZero(f.height)
        tbr    == OrZero(f.tbr)
    IN  IF is_video(f) /\ is_audio(f) THEN <<3, height, tbr>>
        ELSE IF is_video(f) /\ ~is_audio(f) THEN <<2, height, tbr>>
        ELSE IF ~is_video(f) /\ is_audio(f) THEN <<1, tbr>>
        ELSE <<0>>

\* x placed into a list that is descending by sort_key, behind every element
\* whose key is not smaller: equal keys keep the order of the input
InsertDesc(s, x) ==
    LET smaller == {i \in 1..Len(s) : TupleLess(sort_key(s[i]), sort_key(x))}
        at == IF smaller = {} THEN Len(s) + 1
              ELSE CHOOSE i \in smaller : \A j \in smaller : i <= j
    IN  SubSeq(s, 1, at - 1) \o <<x>> \o SubSeq(s, at, Len(s))

RECURSIVE SortedFormats(_)
\* sorted(all_formats, key=sort_key, reverse=True)
SortedFormats(s) ==
    IF s = <<>> THEN <<>>
    ELSE InsertDesc(SortedFormats(SubSeq(s, 1, Len(s) - 1)), s[Len(s)])

\* VideoInfo.formats for a raw stream list
VideoInfoFormats(fs) == SortedFormats(AllFormats(fs))

-----------------------------------------------------------------------------
(* get_available_quality_options: the quality ladder *)

Tolerance == 50

target_resolutions ==
    << [height |-> 2160, name |-> "4K (2160p)"],
       [height |-> 1440, name |-> "1440p"],
       [height |-> 1080, name |-> "1080p"],
       [height |-> 720,  name |-> "720p"],
       [height |-> 480,  name |-> "480p"],
       [height |-> 360,  name |-> "360p"] >>

\* a collection of heights that forgets the video codec
AvailableHeightsAnyCodec(fmts) ==
    {fmts[i].height[1] : i \in {j \in 1..Len(fmts) : TruthyNum(fmts[j].height)}}

\* the set available_heights collected from VideoInfo.formats
AvailableHeights(fmts) ==
    {fmts[i].height[1] :
        i \in {j \in 1..Len(fmts) : TruthyNum(fmts[j].height) /\ fmts[j].vcodec # "none"}}

\* all iteration orders of a set
Orders(S) ==
    {s \in [1..Cardinality(S) -> S] : \A i, j \in 1..Cardinality(S) : s[i] = s[j] => i = j}

\* an update that takes the closest height however far from the target it is
CloserHeightAnyDistance(closest, height, target) ==
    IF closest = None \/ Abs(height - target) < Abs(closest[1] - target)
    THEN Some(height)
    ELSE closest

\* a tolerance test that accepts heights up to twice Tolerance away
CloserHeightDoubleTolerance(closest, height, target) ==
    IF Abs(height - target) <= 2 * Tolerance
    THEN IF closest = None \/ Abs(height - target) < Abs(closest[1] - target)
         THEN Some(height)
         ELSE closest
    ELSE closest

\* an update that also replaces the current choice by an equally close height
CloserHeightLastWins(closest, height, target) ==
    IF Abs(height - target) <= Tolerance
    THEN IF closest = None \/ Abs(height - target) <= Abs(closest[1] - target)
         THEN Some(height)
         ELSE closest
    ELSE closest

\* a tolerance test that leaves out the heights exactly Tolerance away
CloserHeightStrictTolerance(closest, height, target) ==
    IF Abs(height - target) < Tolerance
    THEN IF closest = None \/ Abs(height - target) < Abs(closest[1] - target)
         THEN Some(height)
         ELSE closest
    ELSE closest

\* one step of the inner loop: the new closest_height after seeing `height`
CloserHeight(closest, height, target) ==
    IF Abs(height - target) <= Tolerance
    THEN IF closest = None \/ Abs(height - target) < Abs(closest[1] - target)
         THEN Some(height)
         ELSE closest
    ELSE closest

RECURSIVE ClosestFrom(_, _, _, _)
ClosestFrom(order, i, closest, target) ==
    IF i > Len(order) THEN closest
    ELSE ClosestFrom(order, i + 1, CloserHeight(closest, order[i], target), target)

\* closest_height after the loop over available_heights, iterated in `order`
ClosestHeight(order, target) == ClosestFrom(order, 1, None, target)

FormatSelector(h) ==
    "bestvideo[height<=" \o ToString(h) \o "]+bestaudio/best[height<=" \o ToString(h) \o "]"

\* the dictionary appended for a ladder entry matched to closest_height
TierOption(resolution, closest_height) ==
    [name            |-> resolution.name,
     height          |-> closest_height,
     actual_height   |-> closest_height,
     format_selector |-> FormatSelector(closest_height),
     description     |-> resolution.name \o " with best audio"]

AudioOnlyOption ==
    [name            |-> "Audio Only",
     height          |-> 0,
     actual_height   |-> 0,
     format_selector |-> "bestaudio/best",
     description     |-> "Best quality audio only"]

RECURSIVE TierOptionsFrom(_, _)
\* the options appended by the loop over target_resolutions[k..]
TierOptionsFrom(order, k) ==
    IF k > Len(target_resolutions) THEN <<>>
    ELSE LET resolution == target_resolutions[k]
             closest    == ClosestHeight(order, resolution.height)
         IN  IF TruthyNum(closest)
             THEN <<TierOption(resolution, closest[1])>> \o TierOptionsFrom(order, k + 1)
             ELSE TierOptionsFrom(order, k + 1)

\* an option list with the audio option in front
QualityOptionsAudioFirst(order) == <<AudioOnlyOption>> \o TierOptionsFrom(order, 1)

\* available_options as returned, available_heights being iterated in `order`
QualityOptions(order) == TierOptionsFrom(order, 1) \o <<AudioOnlyOption>>

-----------------------------------------------------------------------------
(* sanitize_filename *)

MaxFilenameLength == 200

\* the characters of the class [<>:"/\\|?*]
IllegalChars == {"<", ">", ":", "\"", "/", "\\", "|", "?", "*"}

\* characters matched by \s and removed by str.strip()
WhitespaceChars == {" ", "\t", "\n"}

\* re.sub(r'[<>:"/\\|?*]', '_', title)
ReplaceIllegal(s) == [i \in 1..Len(s) |-> IF s[i] \in IllegalChars THEN "_" ELSE s[i]]

IsSeparator(c) == c = "_" \/ c \in WhitespaceChars

\* a collapse that knows runs of underscores only
CollapseUnderscoreRuns(s) ==
    LET marked == [i \in 1..Len(s) |->
                      [c    |-> s[i],
                       keep |-> s[i] # "_" \/ i = 1 \/ s[i - 1] # "_"]]
        kept == SelectSeq(marked, LAMBDA m : m.keep)
    IN  [i \in 1..Len(kept) |-> kept[i].c]

\* re.sub(r'[_\s]+', '_', s): every maximal run of underscores and whitespace
\* becomes one underscore
CollapseRuns(s) ==
    LET marked == [i \in 1..Len(s) |->
                      [c    |-> IF IsSeparator(s[i]) THEN "_" ELSE s[i],
                       keep |-> ~IsSeparator(s[i]) \/ i = 1 \/ ~IsSeparator(s[i - 1])]]
        kept == SelectSeq(marked, LAMBDA m : m.keep)
    IN  [i \in 1..Len(kept) |-> kept[i].c]

\* s.strip(chars)
Strip(s, chars) ==
    LET inner == {i \in 1..Len(s) : s[i] \notin chars}
    IN  IF inner = {} THEN <<>>
        ELSE SubSeq(s, CHOOSE i \in inner : \A j \in inner : i <= j,
                       CHOOSE i \in inner : \A j \in inner : j <= i)

\* the value of `sanitized` before the length is limited
SanitizedUncut(t) == Strip(Strip(CollapseRuns(ReplaceIllegal(t)), {"_"}), WhitespaceChars)

\* sanitized[:200] if len(sanitized) > 200 else sanitized
LimitLength(s) == IF Len(s) > MaxFilenameLength THEN SubSeq(s, 1, MaxFilenameLength) ELSE s

sanitize_filename(t) == LimitLength(SanitizedUncut(t))

-----------------------------------------------------------------------------
(* Paths and the constructor *)

\* a relative path of one component
Name(tokens) == [abs |-> FALSE, parts |-> <<tokens>>]

\* Path('') and a missing file name
NoName == [abs |-> FALSE, parts |-> <<>>]

\* pathlib's a / b: an absolute b replaces a
PathJoin(a, b) == IF b.abs THEN b ELSE [abs |-> a.abs, parts |-> a.parts \o b.parts]

\* self.download_path, by default Path("./downloads")
download_path == Name(<<"downloads">>)

\* self.download_path / 'temp'
temp_dir == PathJoin(download_path, Name(<<"temp">>))

\* an exception: its class, the statement that raised it and the choices its
\* message lists
NoError == [kind |-> "none", stage |-> "none", names |-> <<>>]

NoArgs == [custom |-> NoName, quality |-> "", format_id |-> ""]

\* no download was submitted, so nothing was answered
NoAnswer == [raised |-> FALSE, filepath |-> "unasked", estimated |-> FALSE]

\* self.progress_callback = None
NoCallback == "<no callback>"

\* the callables a caller registers
Callbacks == {"first_callback", "second_callback"}

\* no event has arrived and validate_url has not run
RelayIdle ==
    /\ arrived = <<>>
    /\ invocations = <<>>
    /\ valid = "none"

\* st.session_state before the first script run
NoSession ==
    [initialized |-> FALSE, video_info |-> None, has_formats |-> FALSE,
     has_quality_options |-> FALSE, is_downloading |-> FALSE,
     download_progress |-> Absent]

\* the empty text input
NoInput == <<>>

\* the dashboard has not been opened
DashboardIdle ==
    /\ url_input = NoInput
    /\ session = NoSession
    /\ pc = "idle"
    /\ run_log = <<>>
    /\ runs = 0

\* the dictionary without keys
NoEvent == [k \in {} |-> 0]

\* a downloader that has been constructed and has run no operation
DownloaderIdle ==
    /\ ffmpeg = TRUE
    /\ dirs = {download_path}
    /\ constructed = TRUE
    /\ args = NoArgs
    /\ error = NoError
    /\ calls = <<>>
    /\ request = <<>>
    /\ template = <<>>
    /\ result_path = <<>>
    /\ answer = NoAnswer
    /\ progress_callback = NoCallback
    /\ event = NoEvent
    /\ delivered = <<>>
    /\ RelayIdle
    /\ DashboardIdle

-----------------------------------------------------------------------------
(* The inputs *)

RECURSIVE SeqOfSet(_)
\* the elements of a set listed in some fixed order
SeqOfSet(S) ==
    IF S = {} THEN <<>>
    ELSE LET x == CHOOSE y \in S : TRUE IN <<x>> \o SeqOfSet(S \ {x})

SeqsUpTo(S, n) == UNION {[1..k -> S] : k \in 0..n}

Stream(id, u, h, t, vc, ac) ==
    [format_id |-> id, url |-> u, height |-> h, tbr |-> t, vcodec |-> vc, acodec |-> ac]

\* raw streams that differ in what the normaliser looks at
NormaliserStreams ==
    {Stream("",    "u",    Some(720), Some(128), "avc1", "mp4a"),
     Stream("17",  Absent, Some(360), Some(64),  "avc1", "mp4a"),
     Stream("22",  "u",    Some(720), None,      "avc1", "mp4a"),
     Stream("136", "u",    Some(720), Some(128), "avc1", "none"),
     Stream("398", "u",    Some(720), Some(64),  "av01", "none"),
     Stream("v0",  "u",    None,      Some(128), "vp9",  "none"),
     Stream("139", "u",    None,      Some(64),  "none", "mp4a"),
     Stream("140", "u",    None,      Some(128), "none", "mp4a"),
     Stream("hls", "u",    Some(360), Some(64),  Absent, Absent)}

\* heights around the ladder targets: exact, inside, on and outside the tolerance
LadderHeights ==
    {2160, 1080, 1088, 1070, 1090, 1030, 1029, 420}

\* heights more than the tolerance away from every ladder target
OffLadderHeights == {240, 900, 4320}

VideoStream(h) == Stream(ToString(h), "u", Some(h), None, "avc1", "none")

\* raw streams that differ in what the quality ladder looks at
LadderStreams ==
    {VideoStream(h) : h \in LadderHeights}
    \cup
    {Stream("140", "u", None,       Some(128), "none", "mp4a"),
     Stream("x1",  "u", Some(1440), None,      "none", "mp4a"),
     Stream("x3",  "u", Some(0),    None,      "avc1", "mp4a")}

\* the raw list with the heights 360, 480, 720 and 1080
LadderExample == <<VideoStream(360), VideoStream(480), VideoStream(720), VideoStream(1080)>>

RawLists ==
    SeqsUpTo(NormaliserStreams, MaxStreams)
    \cup
    {SeqOfSet(S) : S \in {T \in SUBSET LadderStreams : Cardinality(T) <= MaxHeights}}
    \cup
    {LadderExample}
    \cup
    {<<VideoStream(h)>> : h \in OffLadderHeights}

Init ==
    /\ raw \in RawLists
    /\ fetch = "none"
    /\ title = <<>>
    /\ op = "none"
    /\ outcome = "none"
    /\ formats = <<>>
    /\ heights_iter = <<>>
    /\ options = <<>>
    /\ sanitized = <<>>
    /\ DownloaderIdle

TitleChars == IllegalChars \cup {" ", "\t", "_", "a"}

\* the title My/Video:Title??
ExampleTitle ==
    <<"M", "y", "/", "V", "i", "d", "e", "o", ":", "T", "i", "t", "l", "e", "?", "?">>

\* the title of length n that repeats `unit`
Repeated(unit, n) == [i \in 1..n |-> unit[((i - 1) % Len(unit)) + 1]]

\* titles around and beyond the length limit
LongTitles ==
    {Repeated(unit, n) :
        unit \in {<<"a">>, <<"a", " ">>, <<"_", "a">>, <<"a", "/", "?", " ">>, <<" ">>},
        n \in ((MaxFilenameLength - 1)..(MaxFilenameLength + 2))
                 \cup {MaxFilenameLength + 100, 2 * MaxFilenameLength + 2}}

Titles == SeqsUpTo(TitleChars, MaxTitleLen) \cup {ExampleTitle} \cup LongTitles

InitSanitize ==
    /\ raw = <<>>
    /\ fetch = "none"
    /\ title \in Titles
    /\ op = "none"
    /\ outcome = "none"
    /\ formats = <<>>
    /\ heights_iter = <<>>
    /\ options = <<>>
    /\ sanitized = <<>>
    /\ DownloaderIdle

-----------------------------------------------------------------------------
(* The operations *)

\* what get_video_info hands to its caller: the failure of extract_info is
\* logged and raised again, otherwise the VideoInfo is built
GetVideoInfoResult(fetched, fs) ==
    IF fetched
    THEN [outcome |-> "returned", formats |-> VideoInfoFormats(fs)]
    ELSE [outcome |-> "raised", formats |-> <<>>]

\* a handler that answers a failed metadata fetch with the audio option alone
QualityOptionsResultSwallowed(video_info, order) ==
    IF video_info.outcome = "returned"
    THEN [outcome |-> "returned", options |-> QualityOptions(order)]
    ELSE [outcome |-> "returned", options |-> <<AudioOnlyOption>>]

\* what get_available_quality_options hands to its caller, given the result
\* of its call of get_video_info
QualityOptionsResult(video_info, order) ==
    IF video_info.outcome = "returned"
    THEN [outcome |-> "returned", options |-> QualityOptions(order)]
    ELSE [outcome |-> "raised", options |-> <<>>]

\* get_video_info(url)
GetVideoInfo ==
    /\ \E fetched \in BOOLEAN :
          LET video_info == GetVideoInfoResult(fetched, raw)
          IN  /\ fetch' = IF fetched THEN "ok" ELSE "failed"
              /\ outcome' = video_info.outcome
              /\ formats' = video_info.formats
    /\ op' = "get_video_info"
    /\ heights_iter' = <<>>
    /\ options' = <<>>
    /\ UNCHANGED <<raw, title, sanitized>>
    /\ UNCHANGED <<dlvars, pgvars, rlvars, uivars>>

\* get_available_quality_options(url): the metadata fetch, then the ladder,
\* the set available_heights being iterated in an order the code does not fix
GetAvailableQualityOptions ==
    /\ \E fetched \in BOOLEAN :
          LET video_info == GetVideoInfoResult(fetched, raw)
          IN  \E order \in Orders(AvailableHeights(video_info.formats)) :
                 LET result == QualityOptionsResult(video_info, order)
                 IN  /\ fetch' = IF fetched THEN "ok" ELSE "failed"
                     /\ outcome' = result.outcome
                     /\ formats' = video_info.formats
                     /\ heights_iter' = order
                     /\ options' = result.options
    /\ op' = "get_available_quality_options"
    /\ UNCHANGED <<raw, title, sanitized>>
    /\ UNCHANGED <<dlvars, pgvars, rlvars, uivars>>

Next == GetVideoInfo \/ GetAvailableQualityOptions

Spec == Init /\ [][Next]_vars

\* sanitize_filename(title)
SanitizeFilename ==
    /\ sanitized' = sanitize_filename(title)
    /\ op' = "sanitize_filename"
    /\ outcome' = "returned"
    /\ UNCHANGED <<raw, fetch, title, formats, heights_iter, options>>
    /\ UNCHANGED <<dlvars, pgvars, rlvars, uivars>>

NextSanitize == SanitizeFilename

SpecSanitize == InitSanitize /\ [][NextSanitize]_vars

-----------------------------------------------------------------------------
(* generate_output_template and the download operations *)

\* a template builder that fetches the metadata whatever the custom name is
GenerateOutputTemplateAlwaysFetches(custom_filename, fetched, t) ==
    LET made == IF fetched THEN <<"extract_info:ok">> ELSE <<"extract_info:failed">>
    IN  IF custom_filename # NoName
        THEN [outcome |-> "returned", calls |-> made,
              template |-> <<PathJoin(download_path, custom_filename)>>]
        ELSE IF fetched
             THEN [outcome |-> "returned", calls |-> made,
                   template |-> <<PathJoin(download_path,
                                    Name(sanitize_filename(t) \o <<".%(ext)s">>))>>]
             ELSE [outcome |-> "returned", calls |-> made,
                   template |-> <<PathJoin(download_path, Name(<<"%(id)s.%(ext)s">>))>>]

\* generate_output_template(url, custom_filename) for a video titled t, given
\* whether its call of get_video_info returns; a custom name that is None
\* or '' is NoName
GenerateOutputTemplateResult(custom_filename, fetched, t) ==
    IF custom_filename # NoName
    THEN [outcome |-> "returned", calls |-> <<>>,
          template |-> <<PathJoin(download_path, custom_filename)>>]
    ELSE IF fetched
         THEN [outcome |-> "returned", calls |-> <<"extract_info:ok">>,
               template |-> <<PathJoin(download_path,
                                Name(sanitize_filename(t) \o <<".%(ext)s">>))>>]
         ELSE [outcome |-> "returned", calls |-> <<"extract_info:failed">>,
               template |-> <<PathJoin(download_path, Name(<<"%(id)s.%(ext)s">>))>>]

FFmpegVideoConvertor == [key |-> "FFmpegVideoConvertor", preferedformat |-> "mp4"]

FFmpegExtractAudio ==
    [key |-> "FFmpegExtractAudio", preferredcodec |-> "best",
     preferredquality |-> "0", nopostoverwrites |-> FALSE]

\* the options YtDlpConfigBuilder builds for a download
YdlOpts(format, outtmpl, merge_format, postprocessors) ==
    [format              |-> format,
     outtmpl             |-> outtmpl,
     progress_hooks      |-> <<"_progress_hook">>,
     noplaylist          |-> TRUE,
     tempdir             |-> temp_dir,
     merge_output_format |-> merge_format,
     postprocessors      |-> postprocessors]

\* what extract_info(url, download=True) and the file system can answer:
\* the client raises, or returns info whose 'filepath' is missing, names a
\* file that is gone or names a file that exists, and the path
\* prepare_filename estimates exists or not
DownloadAnswers ==
    {[raised |-> TRUE, filepath |-> Absent, estimated |-> FALSE]}
    \cup
    {[raised |-> FALSE, filepath |-> f, estimated |-> e] :
        f \in {Absent, "gone", "exists"}, e \in BOOLEAN}

\* a tail that returns the reported path without asking whether it exists
SubmitDownloadTrustsReport(ydl_opts, dl) ==
    IF dl.raised
    THEN [outcome |-> "raised", error |-> [kind |-> "Exception", stage |-> "download", names |-> <<>>],
          calls |-> <<"download:raised">>, request |-> <<ydl_opts>>, path |-> <<>>, answer |-> dl]
    ELSE IF dl.filepath # Absent
    THEN [outcome |-> "returned", error |-> NoError,
          calls |-> <<"download:ok">>, request |-> <<ydl_opts>>,
          path |-> <<"info['filepath']">>, answer |-> dl]
    ELSE IF dl.estimated
    THEN [outcome |-> "returned", error |-> NoError,
          calls |-> <<"download:ok">>, request |-> <<ydl_opts>>,
          path |-> <<"prepare_filename(info)">>, answer |-> dl]
    ELSE [outcome |-> "raised", error |-> [kind |-> "Exception", stage |-> "path", names |-> <<>>],
          calls |-> <<"download:ok">>, request |-> <<ydl_opts>>, path |-> <<>>, answer |-> dl]

\* the tail both download helpers share: submit the download, then return
\* the path of the file or raise Exception("Download failed: ...")
SubmitDownload(ydl_opts, dl) ==
    IF dl.raised
    THEN [outcome |-> "raised", error |-> [kind |-> "Exception", stage |-> "download", names |-> <<>>],
          calls |-> <<"download:raised">>, request |-> <<ydl_opts>>, path |-> <<>>, answer |-> dl]
    ELSE IF dl.filepath = "exists"
    THEN [outcome |-> "returned", error |-> NoError,
          calls |-> <<"download:ok">>, request |-> <<ydl_opts>>,
          path |-> <<"info['filepath']">>, answer |-> dl]
    ELSE IF dl.estimated
    THEN [outcome |-> "returned", error |-> NoError,
          calls |-> <<"download:ok">>, request |-> <<ydl_opts>>,
          path |-> <<"prepare_filename(info)">>, answer |-> dl]
    ELSE [outcome |-> "raised", error |-> [kind |-> "Exception", stage |-> "path", names |-> <<>>],
          calls |-> <<"download:ok">>, request |-> <<ydl_opts>>, path |-> <<>>, answer |-> dl]

\* an operation that fails before it submits a download
Failed(kind, stage, made) ==
    [outcome |-> "raised", error |-> [kind |-> kind, stage |-> stage, names |-> <<>>],
     calls |-> made, request |-> <<>>, path |-> <<>>, answer |-> NoAnswer]

\* the failure r with a message that lists the choices `names`
Naming(r, names) == [r EXCEPT !.error.names = names]

\* result r with the calls `made` before it
After(made, r) == [r EXCEPT !.calls = made \o r.calls]

\* the post-processing steps _download_with_format_selector asks for
SelectorPostprocessors(format_selector) == <<FFmpegVideoConvertor>>

\* the download is submitted without asking for FFmpeg first
DownloadWithFormatSelectorUnchecked(format_selector, output_filename, has_ffmpeg, fetched, t, dl) ==
    LET tpl == GenerateOutputTemplateResult(output_filename, fetched, t)
        ydl_opts == YdlOpts(format_selector, tpl.template[1], "mp4",
                            SelectorPostprocessors(format_selector))
    IN  After(tpl.calls, SubmitDownload(ydl_opts, dl))

\* a helper that asks for FFmpeg only when the selector merges two streams
DownloadWithFormatSelectorChecksMerges(format_selector, output_filename, has_ffmpeg, fetched, t, dl) ==
    IF ~has_ffmpeg /\ format_selector # "bestaudio/best"
    THEN Failed("RuntimeError", "ffmpeg", <<"check_executable:missing">>)
    ELSE LET tpl == GenerateOutputTemplateResult(output_filename, fetched, t)
             ydl_opts == YdlOpts(format_selector, tpl.template[1], "mp4",
                                 SelectorPostprocessors(format_selector))
         IN  After(tpl.calls, SubmitDownload(ydl_opts, dl))

\* _download_with_format_selector(url, format_selector, output_filename)
DownloadWithFormatSelectorResult(format_selector, output_filename, has_ffmpeg, fetched, t, dl) ==
    IF ~has_ffmpeg
    THEN Failed("RuntimeError", "ffmpeg", <<"check_executable:missing">>)
    ELSE LET tpl == GenerateOutputTemplateResult(output_filename, fetched, t)
             ydl_opts == YdlOpts(format_selector, tpl.template[1], "mp4",
                                 SelectorPostprocessors(format_selector))
         IN  After(<<"check_executable:found">> \o tpl.calls,
                   SubmitDownload(ydl_opts, dl))

\* the except clause of download_by_quality and of
\* download_best_quality_with_audio: whatever was raised is raised again as
\* a plain Exception
Rewrapped(r) ==
    IF r.outcome = "raised"
    THEN [r EXCEPT !.error.kind = "Exception"]
    ELSE r

\* a selection that falls back to the last option of the list
SelectedOptionOrLast(quality_options, quality_name) ==
    LET named == SelectSeq(quality_options, LAMBDA o : o.name = quality_name)
    IN  IF named = <<>> THEN <<quality_options[Len(quality_options)]>> ELSE <<named[1]>>

\* the first option named quality_name, <<>> if there is none
SelectedOption(quality_options, quality_name) ==
    LET named == SelectSeq(quality_options, LAMBDA o : o.name = quality_name)
    IN  IF named = <<>> THEN <<>> ELSE <<named[1]>>

\* download_by_quality(url, quality_name, output_filename), given the
\* result of its call of get_available_quality_options
DownloadByQualityResult(quality_name, output_filename, quality_options, has_ffmpeg, fetched, t, dl) ==
    IF quality_options.outcome = "raised"
    THEN Failed("Exception", "quality_options", <<"extract_info:failed">>)
    ELSE LET selected_option == SelectedOption(quality_options.options, quality_name)
         IN  IF selected_option = <<>>
             THEN Naming(Failed("Exception", "not_available", <<"extract_info:ok">>),
                         [i \in 1..Len(quality_options.options) |->
                             quality_options.options[i].name])
             ELSE After(<<"extract_info:ok">>,
                        Rewrapped(DownloadWithFormatSelectorResult(
                            selected_option[1].format_selector, output_filename,
                            has_ffmpeg, fetched, t, dl)))

\* a best-quality download that takes the last video option of the list
DownloadBestQualityResultLowest(output_filename, quality_options, has_ffmpeg, fetched, t, dl) ==
    IF quality_options.outcome = "raised"
    THEN Failed("Exception", "quality_options", <<"extract_info:failed">>)
    ELSE LET video_options == SelectSeq(quality_options.options,
                                        LAMBDA o : o.height > 0)
         IN  IF video_options = <<>>
             THEN Failed("Exception", "no_video_formats", <<"extract_info:ok">>)
             ELSE After(<<"extract_info:ok">>,
                        Rewrapped(DownloadWithFormatSelectorResult(
                            video_options[Len(video_options)].format_selector,
                            output_filename, has_ffmpeg, fetched, t, dl)))

\* download_best_quality_with_audio(url, output_filename)
DownloadBestQualityResult(output_filename, quality_options, has_ffmpeg, fetched, t, dl) ==
    IF quality_options.outcome = "raised"
    THEN Failed("Exception", "quality_options", <<"extract_info:failed">>)
    ELSE LET video_options == SelectSeq(quality_options.options,
                                        LAMBDA o : o.height > 0)
         IN  IF video_options = <<>>
             THEN Failed("Exception", "no_video_formats", <<"extract_info:ok">>)
             ELSE After(<<"extract_info:ok">>,
                        Rewrapped(DownloadWithFormatSelectorResult(
                            video_options[1].format_selector, output_filename,
                            has_ffmpeg, fetched, t, dl)))

\* the format of video_info.formats with the given id, <<>> if there is none
SelectedFormat(fs, format_id) ==
    LET same == SelectSeq(fs, LAMBDA f : f.format_id = format_id)
    IN  IF same = <<>> THEN <<>> ELSE <<same[1]>>

\* the post-processing steps download_video_by_format_id asks for
FormatPostprocessors(selected_format) ==
    IF /\ selected_format # <<>>
       /\ selected_format[1].vcodec = "none"
       /\ selected_format[1].acodec # "none"
    THEN <<FFmpegExtractAudio>>
    ELSE <<>>

\* download_video_by_format_id(url, format_id, output_filename), given the
\* result of its call of get_video_info
DownloadByFormatIdResult(format_id, output_filename, video_info, fetched, t, dl) ==
    IF video_info.outcome = "raised"
    THEN Failed("Exception", "validation", <<"extract_info:failed">>)
    ELSE LET selected_format == SelectedFormat(video_info.formats, format_id)
         IN  IF selected_format = <<>>
             THEN Naming(Failed("Exception", "invalid_format_id", <<"extract_info:ok">>),
                         [i \in 1..Len(video_info.formats) |->
                             video_info.formats[i].format_id])
             ELSE LET tpl == GenerateOutputTemplateResult(output_filename, fetched, t)
                      ydl_opts == YdlOpts(format_id, tpl.template[1], Absent,
                                          FormatPostprocessors(selected_format))
                  IN  After(<<"extract_info:ok">> \o tpl.calls,
                            SubmitDownload(ydl_opts, dl))

\* the metadata the client answers with in the download scenarios
DownloadRawLists ==
    {<<>>,
     <<Stream("140", "u", None, Some(128), "none", "mp4a")>>,
     <<VideoStream(1088), Stream("140", "u", None, Some(128), "none", "mp4a")>>,
     <<VideoStream(720), VideoStream(1080), Stream("140", "u", None, Some(128), "none", "mp4a")>>,
     <<VideoStream(1070), VideoStream(1090)>>,
     <<VideoStream(240)>>,
     <<VideoStream(900)>>,
     <<VideoStream(4320), Stream("140", "u", None, Some(128), "none", "mp4a")>>,
     <<Stream("22", "u", Some(720), None, "avc1", "mp4a")>>}

DownloadTitles == {<<>>, <<"a">>, ExampleTitle}

\* output_filename: none, or a name that sanitize_filename would change
CustomNames == {NoName, Name(<<"m", "y", "?", " ", "c", "l", "i", "p">>)}

QualityNames == {"4K (2160p)", "1080p", "720p", "Audio Only", "8K"}

FormatIds == {"140", "1088", "1080", "22", "240", "999"}

InitDownload ==
    /\ raw \in DownloadRawLists
    /\ fetch = "none"
    /\ title \in DownloadTitles
    /\ op = "none"
    /\ outcome = "none"
    /\ formats = <<>>
    /\ heights_iter = <<>>
    /\ options = <<>>
    /\ sanitized = <<>>
    /\ ffmpeg \in BOOLEAN
    /\ dirs \in {{}, {download_path}, {download_path, temp_dir}}
    /\ constructed = FALSE
    /\ args = NoArgs
    /\ error = NoError
    /\ calls = <<>>
    /\ request = <<>>
    /\ template = <<>>
    /\ result_path = <<>>
    /\ answer = NoAnswer
    /\ progress_callback = NoCallback
    /\ event = NoEvent
    /\ delivered = <<>>
    /\ RelayIdle
    /\ DashboardIdle

\* YouTubeDownloader(): download_path.mkdir(exist_ok=True)
Construct ==
    /\ ~constructed
    /\ constructed' = TRUE
    /\ dirs' = dirs \cup {download_path}
    /\ op' = "__init__"
    /\ outcome' = "returned"
    /\ UNCHANGED <<raw, fetch, title, formats, heights_iter, options, sanitized>>
    /\ UNCHANGED <<ffmpeg, args, error, calls, request, template, result_path, answer>>
    /\ UNCHANGED <<pgvars, rlvars, uivars>>

\* the single-threaded caller makes its next call when the last has ended
CallerReady == constructed /\ op = "none"

\* the caller takes the result of the call and goes on
CallerContinues ==
    /\ constructed
    /\ op # "none"
    /\ op' = "none"
    /\ outcome' = "none"
    /\ formats' = <<>>
    /\ heights_iter' = <<>>
    /\ options' = <<>>
    /\ args' = NoArgs
    /\ error' = NoError
    /\ calls' = <<>>
    /\ request' = <<>>
    /\ template' = <<>>
    /\ result_path' = <<>>
    /\ answer' = NoAnswer
    /\ UNCHANGED <<raw, fetch, title, sanitized, ffmpeg, dirs, constructed>>
    /\ UNCHANGED <<pgvars, rlvars, uivars>>

\* generate_output_template(url, custom_filename)
GenerateOutputTemplate ==
    /\ CallerReady
    /\ \E custom_filename \in CustomNames, fetched \in BOOLEAN :
          LET r == GenerateOutputTemplateResult(custom_filename, fetched, title)
          IN  /\ args' = [NoArgs EXCEPT !.custom = custom_filename]
              /\ outcome' = r.outcome
              /\ calls' = r.calls
              /\ template' = r.template
    /\ op' = "generate_output_template"
    /\ error' = NoError
    /\ request' = <<>>
    /\ result_path' = <<>>
    /\ answer' = NoAnswer
    /\ UNCHANGED <<raw, fetch, title, formats, heights_iter, options, sanitized>>
    /\ UNCHANGED <<ffmpeg, dirs, constructed>>
    /\ UNCHANGED <<pgvars, rlvars, uivars>>

\* the variables a download operation sets from its result r
DownloadEnds(r) ==
    /\ outcome' = r.outcome
    /\ error' = r.error
    /\ calls' = r.calls
    /\ request' = r.request
    /\ result_path' = r.path
    /\ answer' = r.answer
    /\ template' = IF r.request = <<>> THEN <<>> ELSE <<r.request[1].outtmpl>>
    /\ UNCHANGED <<raw, fetch, title, sanitized, ffmpeg, dirs, constructed>>
    /\ UNCHANGED <<pgvars, rlvars, uivars>>

\* download_by_quality(url, quality_name, output_filename)
DownloadByQuality ==
    /\ CallerReady
    /\ op' = "download_by_quality"
    /\ \E quality_name \in QualityNames, output_filename \in CustomNames,
          fetched_options \in BOOLEAN, fetched_title \in BOOLEAN,
          dl \in DownloadAnswers :
          LET video_info == GetVideoInfoResult(fetched_options, raw)
          IN  \E order \in Orders(AvailableHeights(video_info.formats)) :
                 LET quality_options == QualityOptionsResult(video_info, order)
                 IN  /\ args' = [NoArgs EXCEPT !.custom = output_filename,
                                               !.quality = quality_name]
                     /\ formats' = video_info.formats
                     /\ heights_iter' = order
                     /\ options' = quality_options.options
                     /\ DownloadEnds(DownloadByQualityResult(
                            quality_name, output_filename, quality_options,
                            ffmpeg, fetched_title, title, dl))

\* download_best_quality_with_audio(url, output_filename)
DownloadBestQualityWithAudio ==
    /\ CallerReady
    /\ op' = "download_best_quality_with_audio"
    /\ \E output_filename \in CustomNames,
          fetched_options \in BOOLEAN, fetched_title \in BOOLEAN,
          dl \in DownloadAnswers :
          LET video_info == GetVideoInfoResult(fetched_options, raw)
          IN  \E order \in Orders(AvailableHeights(video_info.formats)) :
                 LET quality_options == QualityOptionsResult(video_info, order)
                 IN  /\ args' = [NoArgs EXCEPT !.custom = output_filename]
                     /\ formats' = video_info.formats
                     /\ heights_iter' = order
                     /\ options' = quality_options.options
                     /\ DownloadEnds(DownloadBestQualityResult(
                            output_filename, quality_options,
                            ffmpeg, fetched_title, title, dl))

\* download_video_by_format_id(url, format_id, output_filename)
DownloadVideoByFormatId ==
    /\ CallerReady
    /\ op' = "download_video_by_format_id"
    /\ \E format_id \in FormatIds, output_filename \in CustomNames,
          fetched_info \in BOOLEAN, fetched_title \in BOOLEAN,
          dl \in DownloadAnswers :
          LET video_info == GetVideoInfoResult(fetched_info, raw)
          IN  /\ args' = [NoArgs EXCEPT !.custom = output_filename,
                                        !.format_id = format_id]
              /\ formats' = video_info.formats
              /\ heights_iter' = <<>>
              /\ options' = <<>>
              /\ DownloadEnds(DownloadByFormatIdResult(
                     format_id, output_filename, video_info,
                     fetched_title, title, dl))

NextDownload ==
    \/ Construct
    \/ GenerateOutputTemplate
    \/ DownloadByQuality
    \/ DownloadBestQualityWithAudio
    \/ DownloadVideoByFormatId
    \/ CallerContinues

SpecDownload == InitDownload /\ [][NextDownload]_vars

-----------------------------------------------------------------------------
(* _progress_hook *)

\* None as the value of an optional string of DownloadProgress
NoValue == "<None>"

\* d.get(key, default)
Get(d, key, default) == IF key \in DOMAIN d THEN d[key] ELSE default

\* a float as the quotient of two integers, den > 0
Frac(num, den) == [num |-> num, den |-> den]

\* str.rstrip(chars)
RStrip(s, chars) ==
    LET inner == {i \in 1..Len(s) : s[i] \notin chars}
    IN  IF inner = {} THEN <<>>
        ELSE SubSeq(s, 1, CHOOSE i \in inner : \A j \in inner : j <= i)

DigitChars == {"0", "1", "2", "3", "4", "5", "6", "7", "8", "9"}

DigitValue(c) == CHOOSE n \in 0..9 : ToString(n) = c

RECURSIVE Decimal(_)
\* the number a sequence of digits denotes
Decimal(ds) ==
    IF ds = <<>> THEN 0
    ELSE 10 * Decimal(SubSeq(ds, 1, Len(ds) - 1)) + DigitValue(ds[Len(ds)])

RECURSIVE Pow10(_)
Pow10(n) == IF n = 0 THEN 1 ELSE 10 * Pow10(n - 1)

\* float(s) for a str of digits, '.', signs, blanks and other characters:
\* <<value>>, or <<>> where float raises ValueError. float ignores blanks
\* around the number and takes [sign] digits [. digits] or [sign] . digits
Float(s) ==
    LET t      == Strip(s, WhitespaceChars)
        signed == t # <<>> /\ t[1] \in {"+", "-"}
        body   == IF signed THEN Tail(t) ELSE t
        dots   == {i \in 1..Len(body) : body[i] = "."}
        digits == SelectSeq(body, LAMBDA c : c \in DigitChars)
        places == IF dots = {} THEN 0 ELSE Len(body) - (CHOOSE i \in dots : TRUE)
        value  == Frac(Decimal(digits), Pow10(places))
    IN  IF /\ digits # <<>>
           /\ Cardinality(dots) <= 1
           /\ \A i \in 1..Len(body) : body[i] \in DigitChars \cup {"."}
        THEN IF signed /\ t[1] = "-"
             THEN <<Frac(-value.num, value.den)>>
             ELSE <<value>>
        ELSE <<>>

\* the value of a key of d as a str
StrValue(chars) == [str |-> TRUE, chars |-> chars]

\* a value of a key of d that is not a str, such as a float
NotStr == [str |-> FALSE, chars |-> <<>>]

\* str(v) for an error value
Str(v) == IF v.type = "NoneType" THEN "None" ELSE v.text

\* the record the hook passes to the callback
DownloadProgress(status, percentage, speed, eta, filename, error_message, d) ==
    [status        |-> status,
     percentage    |-> percentage,
     speed         |-> speed,
     eta           |-> eta,
     filename      |-> filename,
     error_message |-> error_message,
     hook_data     |-> d]

\* the hook raised before it reached the callback
HookRaised(kind) ==
    [outcome |-> "raised", error |-> [kind |-> kind, stage |-> "_progress_hook", names |-> <<>>],
     delivered |-> <<>>]

HookDelivered(progress) ==
    [outcome |-> "returned", error |-> NoError, delivered |-> <<progress>>]

\* `d.get('total_bytes') or d.get('total_bytes_estimate')`
TotalBytes(d) ==
    IF TruthyNum(Get(d, "total_bytes", None))
    THEN d["total_bytes"]
    ELSE Get(d, "total_bytes_estimate", None)

\* a hook that answers an event without status with the status 'downloading'
ProgressStatusDefaultsToDownloading(d) == Get(d, "status", "downloading")

\* `d.get('status', 'unknown')`
ProgressStatus(d) == Get(d, "status", "unknown")

\* a hook that copies no filename for the statuses finished and merging
DoneProgressNoFilename(status, d) ==
    DownloadProgress(status, Frac(100, 1), NoValue, NoValue, NoValue, NoValue, d)

\* the record for the statuses finished and merging
DoneProgress(status, d) ==
    DownloadProgress(status, Frac(100, 1), NoValue, NoValue,
                     Get(d, "filename", NoValue), NoValue, d)

\* the value an assignment of progress.percentage stores
Stored(value) == [raises |-> "none", value |-> value]

\* the exception an assignment of progress.percentage raises
Raises(kind) == [raises |-> kind, value |-> Frac(0, 1)]

\* the percentage of a hook that does not ask whether the total is positive
DownloadingPercentageAnyTotal(d) ==
    LET total_bytes == TotalBytes(d)
    IN  IF TruthyNum(total_bytes)
        THEN LET downloaded_bytes == Get(d, "downloaded_bytes", Some(0))
             IN  IF downloaded_bytes = None
                 THEN Raises("TypeError")
                 ELSE Stored(Frac(downloaded_bytes[1] * 100, Abs(total_bytes[1])))
        ELSE IF "_percent_str" \in DOMAIN d
             THEN IF ~d["_percent_str"].str
                  THEN Raises("AttributeError")
                  ELSE LET percent_str == RStrip(Strip(d["_percent_str"].chars,
                                                       WhitespaceChars), {"%"})
                           parsed == Float(percent_str)
                       IN  IF parsed = <<>> THEN Stored(Frac(0, 1)) ELSE Stored(parsed[1])
             ELSE Stored(Frac(0, 1))

\* a percentage whose error guard also covers the strip of the percent string
DownloadingPercentageGuardsStrip(d) ==
    LET total_bytes == TotalBytes(d)
    IN  IF TruthyNum(total_bytes) /\ total_bytes[1] > 0
        THEN LET downloaded_bytes == Get(d, "downloaded_bytes", Some(0))
             IN  IF downloaded_bytes = None
                 THEN Raises("TypeError")
                 ELSE Stored(Frac(downloaded_bytes[1] * 100, total_bytes[1]))
        ELSE IF "_percent_str" \in DOMAIN d
             THEN IF ~d["_percent_str"].str
                  THEN Stored(Frac(0, 1))
                  ELSE LET percent_str == RStrip(Strip(d["_percent_str"].chars,
                                                       WhitespaceChars), {"%"})
                           parsed == Float(percent_str)
                       IN  IF parsed = <<>> THEN Stored(Frac(0, 1)) ELSE Stored(parsed[1])
             ELSE Stored(Frac(0, 1))

\* progress.percentage of a 'downloading' event: the quotient of the byte
\* counts, else the number in the percent string, else the default 0.0
DownloadingPercentage(d) ==
    LET total_bytes == TotalBytes(d)
    IN  IF TruthyNum(total_bytes) /\ total_bytes[1] > 0
        THEN LET downloaded_bytes == Get(d, "downloaded_bytes", Some(0))
             IN  IF downloaded_bytes = None
                 THEN Raises("TypeError")
                 ELSE Stored(Frac(downloaded_bytes[1] * 100, total_bytes[1]))
        ELSE IF "_percent_str" \in DOMAIN d
             THEN IF ~d["_percent_str"].str
                  THEN Raises("AttributeError")
                  ELSE LET percent_str == RStrip(Strip(d["_percent_str"].chars,
                                                       WhitespaceChars), {"%"})
                           parsed == Float(percent_str)
                       IN  IF parsed = <<>> THEN Stored(Frac(0, 1)) ELSE Stored(parsed[1])
             ELSE Stored(Frac(0, 1))

\* _progress_hook(d), given whether a callback is set
ProgressHookResult(callback_set, d) ==
    IF ~callback_set
    THEN [outcome |-> "returned", error |-> NoError, delivered |-> <<>>]
    ELSE LET status == ProgressStatus(d)
         IN  IF status = "downloading"
             THEN LET percentage == DownloadingPercentage(d)
                  IN  IF percentage.raises # "none"
                      THEN HookRaised(percentage.raises)
                      ELSE HookDelivered(DownloadProgress(
                               status, percentage.value,
                               Get(d, "_speed_str", NoValue),
                               Get(d, "_eta_str", NoValue),
                               Get(d, "filename", NoValue), NoValue, d))
             ELSE IF status \in {"finished", "merging"}
             THEN HookDelivered(DoneProgress(status, d))
             ELSE IF status = "error"
             THEN HookDelivered(DownloadProgress(
                      status, Frac(0, 1), NoValue, NoValue,
                      Get(d, "filename", NoValue),
                      IF "error" \in DOMAIN d THEN Str(d["error"]) ELSE "Unknown error",
                      d))
             ELSE HookDelivered(DownloadProgress(
                      status, Frac(0, 1), NoValue, NoValue, NoValue, NoValue, d))

\* the dictionaries with the key k, or without it
Opt(k, values) == {NoEvent} \cup {k :> v : v \in values}

\* the statuses of the events the client passes to its progress hooks,
\* as listed at the head of _progress_hook
ClientStatuses == {"downloading", "finished", "error", "merging"}

\* vendor percent strings: " 50.0%", "150%", "-5%", ".5%%", "N/A", "1.2.3", ""
PercentStrings ==
    {<<" ", "5", "0", ".", "0", "%">>,
     <<"1", "5", "0", "%">>,
     <<"-", "5", "%">>,
     <<".", "5", "%", "%">>,
     <<"N", "/", "A">>,
     <<"1", ".", "2", ".", "3">>,
     <<>>}

\* the events of the model: every key is present or not, the byte counts
\* are None, zero, below or above the total
Events ==
    {s @@ db @@ tb @@ te @@ ps @@ sp @@ fn @@ er :
        s  \in Opt("status", ClientStatuses),
        db \in Opt("downloaded_bytes", {None, Some(50), Some(300)}),
        tb \in Opt("total_bytes", {None, Some(0), Some(200)}),
        te \in Opt("total_bytes_estimate", {Some(200), Some(-1)}),
        ps \in Opt("_percent_str", {StrValue(p) : p \in PercentStrings} \cup {NotStr}),
        sp \in {NoEvent, ("_speed_str" :> "1.00MiB/s") @@ ("_eta_str" :> "00:10")},
        fn \in Opt("filename", {"a.mp4"}),
        er \in Opt("error", {[type |-> "str", text |-> "HTTP Error 403"],
                             [type |-> "NoneType", text |-> ""]})}

InitProgress ==
    /\ raw = <<>>
    /\ fetch = "none"
    /\ title = <<>>
    /\ op = "none"
    /\ outcome = "none"
    /\ formats = <<>>
    /\ heights_iter = <<>>
    /\ options = <<>>
    /\ sanitized = <<>>
    /\ ffmpeg = TRUE
    /\ dirs = {download_path}
    /\ constructed = TRUE
    /\ args = NoArgs
    /\ error = NoError
    /\ calls = <<>>
    /\ request = <<>>
    /\ template = <<>>
    /\ result_path = <<>>
    /\ answer = NoAnswer
    /\ progress_callback = NoCallback
    /\ event \in Events
    /\ delivered = <<>>
    /\ RelayIdle
    /\ DashboardIdle

\* set_progress_callback(callback)
SetProgressCallback ==
    /\ \E callback \in Callbacks : progress_callback' = callback
    /\ op' = "set_progress_callback"
    /\ outcome' = "returned"
    /\ error' = NoError
    /\ UNCHANGED <<event, delivered>>
    /\ UNCHANGED <<raw, fetch, title, formats, heights_iter, options, sanitized>>
    /\ UNCHANGED <<ffmpeg, dirs, constructed, args, calls, request, template, result_path, answer>>
    /\ UNCHANGED <<rlvars, uivars>>

\* _progress_hook(d), called by the client with the event d
ProgressHook ==
    /\ LET r == ProgressHookResult(progress_callback # NoCallback, event)
       IN  /\ outcome' = r.outcome
           /\ error' = r.error
           /\ delivered' = r.delivered
    /\ op' = "_progress_hook"
    /\ UNCHANGED <<progress_callback, event>>
    /\ UNCHANGED <<raw, fetch, title, formats, heights_iter, options, sanitized>>
    /\ UNCHANGED <<ffmpeg, dirs, constructed, args, calls, request, template, result_path, answer>>
    /\ UNCHANGED <<rlvars, uivars>>

NextProgress == SetProgressCallback \/ ProgressHook

SpecProgress == InitProgress /\ [][NextProgress]_vars

-----------------------------------------------------------------------------
(* The relay of progress events and validate_url *)

\* a validation that probes a second time after a failed probe
ValidateUrlRetries(probed) ==
    IF probed
    THEN [outcome |-> "returned", valid |-> "True", calls |-> <<"extract_info:ok">>]
    ELSE [outcome |-> "returned", valid |-> "False",
          calls |-> <<"extract_info:failed", "extract_info:failed">>]

\* validate_url(url), given whether extract_info(url, download=False) returns
ValidateUrlResult(probed) ==
    IF probed
    THEN [outcome |-> "returned", valid |-> "True", calls |-> <<"extract_info:ok">>]
    ELSE [outcome |-> "returned", valid |-> "False", calls |-> <<"extract_info:failed">>]

\* events for the relay: 50 of 200 bytes, a finished file, and a byte count
\* of None with a known total
RelayEvents ==
    {[status |-> "downloading", downloaded_bytes |-> <<50>>, total_bytes |-> <<200>>],
     [status |-> "finished", filename |-> "a.mp4"],
     [status |-> "downloading", downloaded_bytes |-> None, total_bytes |-> <<200>>]}

InitRelay ==
    /\ raw = <<>>
    /\ fetch = "none"
    /\ title = <<>>
    /\ op = "none"
    /\ outcome = "none"
    /\ formats = <<>>
    /\ heights_iter = <<>>
    /\ options = <<>>
    /\ sanitized = <<>>
    /\ DownloaderIdle

\* the client calls _progress_hook(d) during a download
ClientEmits ==
    /\ Len(arrived) < MaxEvents
    /\ \E d \in RelayEvents :
          LET r == ProgressHookResult(progress_callback # NoCallback, d)
          IN  /\ event' = d
              /\ outcome' = r.outcome
              /\ error' = r.error
              /\ delivered' = r.delivered
              /\ arrived' = Append(arrived, [event      |-> d,
                                             registered |-> progress_callback,
                                             raised     |-> r.outcome = "raised"])
              /\ invocations' =
                     IF r.delivered = <<>> THEN invocations
                     ELSE Append(invocations, [callback |-> progress_callback,
                                               progress |-> r.delivered[1]])
    /\ op' = "_progress_hook"
    /\ UNCHANGED <<progress_callback, valid>>
    /\ UNCHANGED <<raw, fetch, title, formats, heights_iter, options, sanitized>>
    /\ UNCHANGED <<ffmpeg, dirs, constructed, args, calls, request, template, result_path, answer>>
    /\ UNCHANGED uivars

\* validate_url(url)
ValidateUrl ==
    /\ \E probed \in BOOLEAN :
          LET r == ValidateUrlResult(probed)
          IN  /\ outcome' = r.outcome
              /\ valid' = r.valid
              /\ calls' = r.calls
    /\ op' = "validate_url"
    /\ error' = NoError
    /\ UNCHANGED <<raw, fetch, title, formats, heights_iter, options, sanitized>>
    /\ UNCHANGED <<ffmpeg, dirs, constructed, args, request, template, result_path, answer>>
    /\ UNCHANGED <<pgvars, arrived, invocations, uivars>>

NextRelay == SetProgressCallback \/ ClientEmits \/ ValidateUrl

SpecRelay == InitRelay /\ [][NextRelay]_vars

-----------------------------------------------------------------------------
(* The web dashboard: one script run of streamlit_app.py, block by block *)

WatchUrl(id) == <<"watch", id>>

PlaylistUrl(id) == <<"playlist", id>>

\* what extract_info(url, download=False) returns for the URLs it can
\* resolve: a video, or a playlist with its entries
VideoPage(has_formats) ==
    [has_entries |-> FALSE, entries |-> <<>>, has_formats |-> has_formats]

PlaylistPage(entries) ==
    [has_entries |-> TRUE, entries |-> entries, has_formats |-> FALSE]

Catalog ==
    (WatchUrl("a") :> VideoPage(TRUE))
    @@ (WatchUrl("b") :> VideoPage(TRUE))
    @@ (WatchUrl("c") :> VideoPage(FALSE))
    @@ (PlaylistUrl("p") :> PlaylistPage(<<[url |-> Some(WatchUrl("b")), id |-> "b"],
                                           [url |-> Some(WatchUrl("a")), id |-> "a"]>>))
    @@ (PlaylistUrl("q") :> PlaylistPage(<<[url |-> None, id |-> "c"]>>))
    @@ (PlaylistUrl("empty") :> PlaylistPage(<<>>))

\* the values the user leaves in the text input
UrlInputs ==
    {NoInput, WatchUrl("a"), WatchUrl("c"), PlaylistUrl("p"), PlaylistUrl("q"),
     PlaylistUrl("empty"), <<"garbage", "x">>}

\* whether the i-th extract_info of one operation answers
Networks == [1..2 -> BOOLEAN]

\* info['entries'][0].get('url') or the watch URL built from its id
FirstEntryUrl(info) ==
    LET first == info.entries[1]
    IN  IF first.url # None THEN first.url[1] ELSE WatchUrl(first.id)

\* a get_video_info whose result carries the URL it was first asked for
RECURSIVE VideoInfoKeepsRequestedUrl(_, _, _)
VideoInfoKeepsRequestedUrl(url, net, i) ==
    IF i > 2 \/ url \notin DOMAIN Catalog \/ ~net[i]
    THEN [outcome |-> "raised", url |-> NoInput, has_formats |-> FALSE]
    ELSE LET info == Catalog[url]
         IN  IF info.has_entries
             THEN IF info.entries # <<>>
                  THEN [VideoInfoKeepsRequestedUrl(FirstEntryUrl(info), net, i + 1)
                            EXCEPT !.url = IF @ = NoInput THEN @ ELSE url]
                  ELSE [outcome |-> "raised", url |-> NoInput, has_formats |-> FALSE]
             ELSE [outcome |-> "returned", url |-> url,
                   has_formats |-> info.has_formats]

\* get_video_info(url) as far as the URL goes: the i-th extract_info, the
\* recursion into the first entry of a playlist, the url field of the result
RECURSIVE VideoInfoFor(_, _, _)
VideoInfoFor(url, net, i) ==
    IF i > 2 \/ url \notin DOMAIN Catalog \/ ~net[i]
    THEN [outcome |-> "raised", url |-> NoInput, has_formats |-> FALSE]
    ELSE LET info == Catalog[url]
         IN  IF info.has_entries
             THEN IF info.entries # <<>>
                  THEN VideoInfoFor(FirstEntryUrl(info), net, i + 1)
                  ELSE [outcome |-> "raised", url |-> NoInput, has_formats |-> FALSE]
             ELSE [outcome |-> "returned", url |-> url,
                   has_formats |-> info.has_formats]

\* the callback the script defines and registers in every run
DashboardCallback == "progress_callback"

\* the session state after `if 'downloader' not in st.session_state`
InitializedSession(sess) ==
    IF sess.initialized THEN sess
    ELSE [initialized |-> TRUE, video_info |-> None, has_formats |-> FALSE,
          has_quality_options |-> FALSE, is_downloading |-> FALSE,
          download_progress |-> Absent]

\* the condition under which the URL block fetches the metadata
CacheMiss(sess, url) == sess.video_info = None \/ sess.video_info[1].url # url

\* the block "URL validation and info extraction"
UrlSectionResult(url, sess, probed, net_info, net_options) ==
    IF url = NoInput
    THEN [session |-> sess, log |-> <<>>]
    ELSE IF ValidateUrlResult(probed /\ url \in DOMAIN Catalog).valid = "False"
    THEN [session |-> sess, log |-> <<"validate_url: False", "st.error">>]
    ELSE IF ~CacheMiss(sess, url)
    THEN [session |-> sess, log |-> <<"validate_url: True">>]
    ELSE LET video_info == VideoInfoFor(url, net_info, 1)
             quality_options == VideoInfoFor(url, net_options, 1)
         IN  IF video_info.outcome = "raised"
             THEN [session |-> sess,
                   log |-> <<"validate_url: True", "get_video_info", "st.error">>]
             ELSE IF quality_options.outcome = "raised"
             THEN [session |-> [sess EXCEPT
                                   !.video_info = Some([url |-> video_info.url]),
                                   !.has_formats = video_info.has_formats],
                   log |-> <<"validate_url: True", "get_video_info",
                             "get_available_quality_options", "st.error">>]
             ELSE [session |-> [sess EXCEPT
                                   !.video_info = Some([url |-> video_info.url]),
                                   !.has_formats = video_info.has_formats,
                                   !.has_quality_options = TRUE],
                   log |-> <<"validate_url: True", "get_video_info",
                             "get_available_quality_options", "st.success">>]

\* the buttons a run can find pressed, given what the session holds
Buttons(sess) ==
    IF sess.video_info = None THEN {}
    ELSE {"best", "audio_only"}
         \cup (IF sess.has_quality_options THEN {"quality"} ELSE {})
         \cup (IF sess.has_formats THEN {"format"} ELSE {})

\* a handler whose reset stands at the end of the try block
HandlerEndResetsOnSuccess(sess, raised) ==
    IF raised THEN sess ELSE [sess EXCEPT !.is_downloading = FALSE]

\* the end of a download handler: except Exception, then finally
HandlerEnd(sess, raised) == [sess EXCEPT !.is_downloading = FALSE]

\* the block "Progress display"
ProgressDisplayResult(sess) ==
    IF sess.is_downloading /\ sess.download_progress # Absent
    THEN [session |-> IF sess.download_progress \in {"finished", "error"}
                      THEN [sess EXCEPT !.is_downloading = FALSE]
                      ELSE sess,
          log |-> <<"progress panel">>]
    ELSE [session |-> sess, log |-> <<>>]

InitDashboard ==
    /\ raw = <<>>
    /\ fetch = "none"
    /\ title = <<>>
    /\ op = "none"
    /\ outcome = "none"
    /\ formats = <<>>
    /\ heights_iter = <<>>
    /\ options = <<>>
    /\ sanitized = <<>>
    /\ DownloaderIdle

DashboardFrame ==
    /\ UNCHANGED <<raw, fetch, title, outcome, formats, heights_iter, options, sanitized>>
    /\ UNCHANGED <<dlvars, invocations, valid, runs>>

\* a script run starts: the text input, the session initialisation and
\* set_progress_callback
StartRun ==
    /\ pc = "idle"
    /\ runs < MaxRuns
    /\ \E url \in UrlInputs :
          /\ url_input' = url
          /\ run_log' = IF url = url_input /\ session.initialized
                        THEN <<"input unchanged">> ELSE <<"input changed">>
    /\ session' = InitializedSession(session)
    /\ progress_callback' = DashboardCallback
    /\ pc' = "url section"
    /\ op' = "script run"
    /\ UNCHANGED <<event, delivered, arrived>>
    /\ DashboardFrame

\* the block "URL validation and info extraction"
UrlSection ==
    /\ pc = "url section"
    /\ \E probed \in BOOLEAN, net_info \in Networks, net_options \in Networks :
          LET r == UrlSectionResult(url_input, session, probed, net_info, net_options)
          IN  /\ session' = r.session
              /\ run_log' = run_log \o r.log
    /\ pc' = "handlers"
    /\ op' = "url section"
    /\ UNCHANGED <<url_input, pgvars, arrived>>
    /\ DashboardFrame

\* no download button was pressed
NoButton ==
    /\ pc = "handlers"
    /\ pc' = "progress display"
    /\ op' = "no button"
    /\ UNCHANGED <<url_input, session, run_log, pgvars, arrived>>
    /\ DashboardFrame

\* a pressed download button: the handler enters its try block
HandlerStarts ==
    /\ pc = "handlers"
    /\ \E button \in Buttons(session) :
          run_log' = Append(run_log, button)
    /\ session' = [session EXCEPT !.is_downloading = TRUE]
    /\ arrived' = <<>>
    /\ pc' = "downloading"
    /\ op' = "handler starts"
    /\ UNCHANGED <<url_input, pgvars>>
    /\ DashboardFrame

\* the client reports progress while the handler waits for the download
HandlerProgress ==
    /\ pc = "downloading"
    /\ Len(arrived) < MaxEvents
    /\ \E d \in RelayEvents :
          LET r == ProgressHookResult(progress_callback # NoCallback, d)
          IN  /\ event' = d
              /\ delivered' = r.delivered
              /\ arrived' = Append(arrived, [event      |-> d,
                                             registered |-> progress_callback,
                                             raised     |-> r.outcome = "raised"])
              /\ session' = IF r.delivered = <<>> THEN session
                            ELSE [session EXCEPT
                                     !.download_progress = r.delivered[1].status]
              /\ pc' = IF r.outcome = "raised" THEN "download raised" ELSE "downloading"
    /\ op' = "handler progress"
    /\ UNCHANGED <<url_input, run_log, progress_callback>>
    /\ DashboardFrame

\* the download returns or raises: except Exception and finally
HandlerEnds ==
    /\ pc \in {"downloading", "download raised"}
    /\ \E raised \in BOOLEAN :
          /\ pc = "download raised" => raised
          /\ session' = HandlerEnd(session, raised)
          /\ run_log' = Append(run_log, IF raised THEN "st.error" ELSE "st.success")
    /\ arrived' = <<>>
    /\ pc' = "progress display"
    /\ op' = "handler ends"
    /\ UNCHANGED <<url_input, pgvars>>
    /\ DashboardFrame

\* the block "Progress display"
ProgressDisplay ==
    /\ pc = "progress display"
    /\ LET r == ProgressDisplayResult(session)
       IN  /\ session' = r.session
           /\ run_log' = run_log \o r.log
    /\ pc' = "tabs"
    /\ op' = "progress display"
    /\ UNCHANGED <<url_input, pgvars, arrived>>
    /\ DashboardFrame

\* the tabs and the sidebar; "Clear Downloads Folder" ends the run with
\* st.rerun()
Tabs ==
    /\ pc = "tabs"
    /\ \E cleared \in BOOLEAN :
          /\ pc' = IF cleared THEN "idle" ELSE "auto refresh"
          /\ run_log' = IF cleared THEN Append(run_log, "clear rerun") ELSE run_log
          /\ runs' = IF cleared THEN runs + 1 ELSE runs
    /\ op' = "tabs"
    /\ UNCHANGED <<url_input, session, pgvars, arrived>>
    /\ UNCHANGED <<raw, fetch, title, outcome, formats, heights_iter, options, sanitized>>
    /\ UNCHANGED <<dlvars, invocations, valid>>

\* the block "Auto-refresh for progress updates"; the run ends
AutoRefresh ==
    /\ pc = "auto refresh"
    /\ run_log' = Append(run_log, IF session.is_downloading
                                  THEN "auto rerun" ELSE "completed")
    /\ runs' = runs + 1
    /\ pc' = "idle"
    /\ op' = "auto refresh"
    /\ UNCHANGED <<url_input, session, pgvars, arrived>>
    /\ UNCHANGED <<raw, fetch, title, outcome, formats, heights_iter, options, sanitized>>
    /\ UNCHANGED <<dlvars, invocations, valid>>

NextDashboard ==
    \/ StartRun
    \/ UrlSection
    \/ NoButton
    \/ HandlerStarts
    \/ HandlerProgress
    \/ HandlerEnds
    \/ ProgressDisplay
    \/ Tabs
    \/ AutoRefresh

SpecDashboard == InitDashboard /\ [][NextDashboard]_vars

-----------------------------------------------------------------------------
(* The claims about get_video_info and get_available_quality_options *)

Returned(name) == op = name /\ outcome = "returned"

\* the raw streams with a non-empty format_id and a non-empty url
KeptIndices == {i \in 1..Len(raw) : raw[i].format_id \notin {Absent, ""} /\ raw[i].url \notin {Absent, ""}}

\* the output entry d carries what the input stream f carries
SameStream(d, f) ==
    /\ d.format_id = f.format_id
    /\ d.height = f.height
    /\ d.tbr = f.tbr
    /\ f.vcodec # Absent => d.vcodec = f.vcodec
    /\ f.acodec # Absent => d.acodec = f.acodec

\* C1: the formats of the VideoInfo returned by get_video_info are exactly
\* the input streams with a non-empty format_id and a non-empty url, each
\* once: entry for entry they pair off with those streams, and the output is
\* never longer than the input.
C1_FormatsAreTheDownloadableStreams ==
    Returned("get_video_info") =>
        /\ Len(formats) <= Len(raw)
        /\ Len(formats) = Cardinality(KeptIndices)
        /\ \E p \in [1..Len(formats) -> KeptIndices] :
              /\ \A i, j \in 1..Len(formats) : p[i] = p[j] => i = j
              /\ \A i \in 1..Len(formats) : SameStream(formats[i], raw[p[i]])

\* get_video_info dropped a stream without id and a stream without url and
\* kept another
C1_Witness ==
    /\ Returned("get_video_info")
    /\ Len(raw) = 3
    /\ Len(formats) = 1
    /\ \E i \in 1..3 : raw[i].format_id = ""
    /\ \E i \in 1..3 : raw[i].url = Absent

BothVideoAudio(d) == d.vcodec # "none" /\ d.acodec # "none"

VideoOnly(d) == d.vcodec # "none" /\ d.acodec = "none"

AudioOnly(d) == d.vcodec = "none" /\ d.acodec # "none"

NumOr0(x) == IF x = <<>> THEN 0 ELSE x[1]

\* C2: in the formats returned by get_video_info no video-only and no
\* audio-only stream precedes a stream with both video and audio, no
\* audio-only stream precedes a video-only stream, the video-only streams
\* are non-increasing by (height, bitrate) and the audio-only streams by
\* bitrate, a missing height or bitrate counting as 0.
C2_FormatsAreRanked ==
    Returned("get_video_info") =>
        \A i, j \in 1..Len(formats) :
            i < j =>
                LET a == formats[i]
                    b == formats[j]
                IN  /\ ~((VideoOnly(a) \/ AudioOnly(a)) /\ BothVideoAudio(b))
                    /\ ~(AudioOnly(a) /\ VideoOnly(b))
                    /\ (VideoOnly(a) /\ VideoOnly(b)) =>
                          \/ NumOr0(a.height) > NumOr0(b.height)
                          \/ /\ NumOr0(a.height) = NumOr0(b.height)
                             /\ NumOr0(a.tbr) >= NumOr0(b.tbr)
                    /\ (AudioOnly(a) /\ AudioOnly(b)) => NumOr0(a.tbr) >= NumOr0(b.tbr)

\* the raw list held an audio-only stream, then a video-only stream, then a
\* stream with both, and get_video_info returned them in the opposite order
C2_Witness ==
    /\ Returned("get_video_info")
    /\ Len(raw) = 3
    /\ Len(formats) = 3
    /\ raw[1].vcodec = "none" /\ raw[1].acodec = "mp4a"
    /\ raw[2].vcodec = "avc1" /\ raw[2].acodec = "none"
    /\ BothVideoAudio(formats[1])
    /\ VideoOnly(formats[2])
    /\ AudioOnly(formats[3])

\* the heights of the streams with a non-null height and a video codec other
\* than 'none'
VideoHeights ==
    {formats[i].height[1] :
        i \in {j \in 1..Len(formats) : formats[j].height # <<>> /\ formats[j].vcodec # "none"}}

\* the ladder entries that have a video height within 50 pixels, in ladder order
MatchedTargets ==
    SelectSeq(target_resolutions,
              LAMBDA r : /\ r.height \in {2160, 1440, 1080, 720, 480, 360}
                         /\ \E h \in VideoHeights : Abs(h - r.height) <= 50)

\* the options in front of the last one
Tiers == SubSeq(options, 1, Len(options) - 1)

\* C3: get_available_quality_options emits a tier for a ladder target T if
\* and only if some stream with a non-null height and a video codec other
\* than 'none' has |height - T| <= 50, the height the tier carries minimises
\* |height - T| over the available heights, and the tiers come in descending
\* ladder order; for the heights {360, 480, 720, 1080} the tiers are exactly
\* 1080p, 720p, 480p, 360p, each matched exactly.
C3_TiersAreTheTargetsWithinTolerance ==
    Returned("get_available_quality_options") =>
        /\ Len(Tiers) = Len(MatchedTargets)
        /\ \A k \in 1..Len(Tiers) :
              /\ Tiers[k].name = MatchedTargets[k].name
              /\ Tiers[k].actual_height \in VideoHeights
              /\ \A h \in VideoHeights :
                    Abs(Tiers[k].actual_height - MatchedTargets[k].height)
                        <= Abs(h - MatchedTargets[k].height)
        /\ VideoHeights = {360, 480, 720, 1080} =>
              /\ [k \in 1..Len(Tiers) |-> Tiers[k].name] = <<"1080p", "720p", "480p", "360p">>
              /\ [k \in 1..Len(Tiers) |-> Tiers[k].actual_height] = <<1080, 720, 480, 360>>

\* the options for the heights {360, 480, 720, 1080} were returned
C3_Witness ==
    /\ Returned("get_available_quality_options")
    /\ VideoHeights = {360, 480, 720, 1080}
    /\ Len(options) = 5
    /\ options[1].name = "1080p"

\* C4: every option list returned by get_available_quality_options ends with
\* the option named 'Audio Only', of height 0 and selector 'bestaudio/best',
\* and no other entry is named 'Audio Only' or has height 0.
C4_AudioOnlyIsLastAndUnique ==
    Returned("get_available_quality_options") =>
        /\ Len(options) >= 1
        /\ options[Len(options)].name = "Audio Only"
        /\ options[Len(options)].height = 0
        /\ options[Len(options)].format_selector = "bestaudio/best"
        /\ \A k \in 1..(Len(options) - 1) :
              options[k].name # "Audio Only" /\ options[k].height # 0

\* an option list with tiers in front of the audio option was returned
C4_Witness ==
    /\ Returned("get_available_quality_options")
    /\ Len(options) = 3
    /\ options[1].name = "4K (2160p)"
    /\ options[3].name = "Audio Only"

\* C5: when every stream of the metadata has the video codec 'none',
\* get_available_quality_options returns the 'Audio Only' entry alone.
C5_AudioSourceHasOnlyAudioOption ==
    (/\ Returned("get_available_quality_options")
     /\ \A i \in 1..Len(formats) : formats[i].vcodec = "none") =>
        /\ Len(options) = 1
        /\ options[1].name = "Audio Only"

\* the options of a metadata whose streams all have the video codec 'none',
\* one of them with a height on the ladder, were returned
C5_Witness ==
    /\ Returned("get_available_quality_options")
    /\ Len(formats) = 2
    /\ \A i \in 1..Len(formats) : formats[i].vcodec = "none"
    /\ \E i \in 1..Len(formats) : formats[i].height = <<1440>>
    /\ Len(options) = 1

\* the ladder target of the tier named n
TargetOf(n) ==
    (CHOOSE r \in {target_resolutions[k] : k \in 1..Len(target_resolutions)} : r.name = n).height

\* two tiers of an option list carry the same matched height
HasDuplicateHeight(opts) ==
    \E i, j \in 1..(Len(opts) - 1) : i # j /\ opts[i].actual_height = opts[j].actual_height

\* every height that can be within the tolerance of a ladder target
HeightsNearLadder == 1..(target_resolutions[1].height + 2 * Tolerance)

\* C6 as stated: there is a set of available heights for which one height
\* lies within the tolerance of more than one ladder target, so that
\* get_available_quality_options emits two tiers carrying the same matched
\* height.
C6_DuplicateHeightsPossible ==
    \/ HasDuplicateHeight(options)
    \/ \E h \in HeightsNearLadder : HasDuplicateHeight(QualityOptions(<<h>>))
    \/ \E S \in SUBSET (LadderHeights \cup OffLadderHeights \cup {360, 480, 720, 1440}) :
          /\ Cardinality(S) <= MaxHeights
          /\ \E order \in Orders(S) : HasDuplicateHeight(QualityOptions(order))

\* C6 amended: no available height lies within the tolerance of more than
\* one ladder target (neighbouring targets are at least 120 apart), so the
\* tiers of every option list get_available_quality_options returns carry
\* pairwise different matched heights.
C6_MatchedHeightsAreDistinct ==
    Returned("get_available_quality_options") =>
        /\ ~HasDuplicateHeight(options)
        /\ \A i \in 1..Len(heights_iter) :
              Cardinality({k \in 1..Len(target_resolutions) :
                  Abs(heights_iter[i] - target_resolutions[k].height) <= 50}) <= 1

\* options were returned for heights that include 420, which lies between the
\* targets 360 and 480, and two other heights that were matched
C6_Witness ==
    /\ Returned("get_available_quality_options")
    /\ \E i \in 1..Len(heights_iter) : heights_iter[i] = 420
    /\ Len(options) = 3

\* C7 as stated: each tier carries the ladder's target height in 'height' and
\* the matched available height in 'actual_height'.
C7_HeightIsTheLadderTarget ==
    Returned("get_available_quality_options") =>
        \A k \in 1..(Len(options) - 1) :
            /\ options[k].height = TargetOf(options[k].name)
            /\ options[k].actual_height \in VideoHeights
            /\ Abs(options[k].actual_height - TargetOf(options[k].name)) <= 50

\* the positions of heights_iter that are within the tolerance of T and as
\* close to T as any height
Closest(T) ==
    {i \in 1..Len(heights_iter) :
        /\ Abs(heights_iter[i] - T) <= 50
        /\ \A j \in 1..Len(heights_iter) : Abs(heights_iter[i] - T) <= Abs(heights_iter[j] - T)}

\* C8: when several available heights are equally distant from a ladder
\* target, the one met first in the iteration over the set of heights is
\* matched, and then another iteration order of the same set yields another
\* option list: the result is not determined by the set of heights alone.
C8_FirstEncounteredWinsTies ==
    Returned("get_available_quality_options") =>
        \A k \in 1..(Len(options) - 1) :
            LET T == TargetOf(options[k].name)
            IN  /\ Closest(T) # {}
                /\ \A i \in Closest(T) :
                      (\A j \in Closest(T) : i <= j) => options[k].actual_height = heights_iter[i]
                /\ Cardinality(Closest(T)) > 1 =>
                      \E order \in Orders({heights_iter[i] : i \in 1..Len(heights_iter)}) :
                          QualityOptions(order) # options

\* 1090 was met before 1070, both 10 away from 1080, and the 1080p tier
\* carries 1090
C8_Witness ==
    /\ Returned("get_available_quality_options")
    /\ \E i, j \in 1..Len(heights_iter) :
          i < j /\ heights_iter[i] = 1090 /\ heights_iter[j] = 1070
    /\ \E k \in 1..(Len(options) - 1) :
          options[k].name = "1080p" /\ options[k].actual_height = 1090

\* C9: when the metadata fetch inside get_available_quality_options fails,
\* the operation raises and returns no list, not even the audio option.
C9_FailedFetchRaises ==
    (op = "get_available_quality_options" /\ fetch = "failed") =>
        /\ outcome = "raised"
        /\ options = <<>>

\* the metadata fetch failed for a URL whose streams would have given tiers
C9_Witness ==
    /\ op = "get_available_quality_options"
    /\ fetch = "failed"
    /\ raw = LadderExample
    /\ outcome = "raised"

-----------------------------------------------------------------------------
(* The claims about sanitize_filename *)

\* C10: for every title sanitize_filename returns a string without any of
\* the characters < > : " / \ | ? *, without whitespace, without two
\* adjacent underscores and of at most 200 characters, a sanitized title
\* longer than 200 characters being cut to its first 200; the title
\* My/Video:Title?? yields My_Video_Title.
C10_SanitizedIsCleanAndCapped ==
    Returned("sanitize_filename") =>
        /\ \A i \in 1..Len(sanitized) :
              /\ sanitized[i] \notin {"<", ">", ":", "\"", "/", "\\", "|", "?", "*"}
              /\ sanitized[i] \notin {" ", "\t", "\n"}
        /\ \A i \in 1..(Len(sanitized) - 1) : ~(sanitized[i] = "_" /\ sanitized[i + 1] = "_")
        /\ Len(sanitized) <= 200
        /\ Len(SanitizedUncut(title)) > 200 => sanitized = SubSeq(SanitizedUncut(title), 1, 200)
        /\ (Len(title) > 200 /\ \A i \in 1..Len(title) : title[i] = "a") =>
              sanitized = [i \in 1..200 |-> "a"]
        /\ title = ExampleTitle =>
              sanitized = <<"M", "y", "_", "V", "i", "d", "e", "o", "_", "T", "i", "t", "l", "e">>

\* a title of more than 200 characters with illegal characters and spaces
\* was sanitized and cut to 200 characters
C10_Witness ==
    /\ Returned("sanitize_filename")
    /\ Len(title) > 400
    /\ \E i \in 1..Len(title) : title[i] = "?"
    /\ \E i \in 1..Len(title) : title[i] = " "
    /\ Len(sanitized) = 200

\* C11 as stated: for every title, capped ones included, the string
\* sanitize_filename returns neither begins nor ends with an underscore.
C11_NoUnderscoreAtTheEnds ==
    (Returned("sanitize_filename") /\ sanitized # <<>>) =>
        /\ sanitized[1] # "_"
        /\ sanitized[Len(sanitized)] # "_"

-----------------------------------------------------------------------------
(* The claims about the output template, the constructor and the downloads *)

DownloadOps ==
    {"download_by_quality", "download_best_quality_with_audio",
     "download_video_by_format_id"}

\* the log holds the call c
Made(c) == \E i \in 1..Len(calls) : calls[i] = c

\* the calls of the log that equal c
Count(c) == Cardinality({i \in 1..Len(calls) : calls[i] = c})

\* the path download_path/<name>
Under(name) == [abs |-> FALSE, parts |-> <<<<"downloads">>, name>>]

\* the metadata fetch that generate_output_template made inside a download
\* operation, "none" if it made none: it is the fetch that precedes the
\* submission of the download
TitleFetch ==
    IF /\ Len(calls) >= 3
       /\ calls[Len(calls)] \in {"download:ok", "download:raised"}
       /\ calls[Len(calls) - 1] \in {"extract_info:ok", "extract_info:failed"}
    THEN calls[Len(calls) - 1]
    ELSE "none"

SelectorOps == {"download_by_quality", "download_best_quality_with_audio"}

Submitted == Made("download:ok") \/ Made("download:raised")

\* C13: download_by_quality and download_best_quality_with_audio ask the
\* host for FFmpeg before they submit a download: whenever a download was
\* submitted an earlier call found FFmpeg, and without FFmpeg the operation
\* fails and no download is submitted.
C13_MuxerCheckPrecedesSubmission ==
    op \in SelectorOps =>
        /\ \A i \in 1..Len(calls) :
              calls[i] \in {"download:ok", "download:raised"} =>
                  \E j \in 1..(i - 1) : calls[j] = "check_executable:found"
        /\ request # <<>> => Submitted /\ ffmpeg
        /\ ~ffmpeg => /\ outcome = "raised"
                      /\ request = <<>>
                      /\ ~Submitted

\* a quality that exists is requested on a host without FFmpeg: the
\* operation stops at the check
C13_Witness ==
    /\ op = "download_by_quality"
    /\ ~ffmpeg
    /\ args.quality = "1080p"
    /\ calls = <<"extract_info:ok", "check_executable:missing">>
    /\ outcome = "raised"
    /\ request = <<>>

\* C14 as stated: when FFmpeg is missing, the exception that reaches the
\* caller of download_by_quality or download_best_quality_with_audio is a
\* RuntimeError.
C14_MissingMuxerRaisesRuntimeError ==
    (op \in SelectorOps /\ Made("check_executable:missing")) =>
        /\ outcome = "raised"
        /\ error.kind = "RuntimeError"

\* the request asks for the extraction of the audio, best codec, quality 0
CarriesAudioExtraction(ydl_opts) ==
    \E i \in 1..Len(ydl_opts.postprocessors) :
        /\ ydl_opts.postprocessors[i].key = "FFmpegExtractAudio"
        /\ ydl_opts.postprocessors[i].preferredcodec = "best"
        /\ ydl_opts.postprocessors[i].preferredquality = "0"

\* the request submitted selects an audio-only stream by its format id
AudioOnlyById ==
    /\ op = "download_video_by_format_id"
    /\ request # <<>>
    /\ \E i \in 1..Len(formats) : /\ formats[i].format_id = args.format_id
                                  /\ AudioOnly(formats[i])

\* the request submitted is the one of the tier Audio Only
AudioOnlyByTier ==
    /\ op = "download_by_quality"
    /\ request # <<>>
    /\ args.quality = "Audio Only"

\* C15 as stated: every download request for an audio-only selection, by
\* format id or by the tier Audio Only, carries the audio extraction step
\* with the best codec and the highest quality.
C15_AudioOnlyRequestsExtractAudio ==
    (AudioOnlyById \/ AudioOnlyByTier) => CarriesAudioExtraction(request[1])

\* C16 as stated: once a YouTubeDownloader is constructed, download_path
\* and download_path/temp both exist.
C16_TempDirectoryExistsAfterConstruction ==
    constructed => (download_path \in dirs /\ temp_dir \in dirs)

\* C22: a download operation returns a path only when that path exists: the
\* 'filepath' the client reports when it is reported and exists, otherwise
\* the name prepare_filename predicts when that exists; when neither exists
\* the operation raises "Could not determine final downloaded file path"
\* and returns nothing.
C22_ReturnedPathExists ==
    op \in DownloadOps =>
        /\ result_path # <<>> <=> outcome = "returned"
        /\ outcome = "returned" =>
              /\ Made("download:ok")
              /\ IF answer.filepath = "exists"
                 THEN result_path = <<"info['filepath']">>
                 ELSE answer.estimated /\ result_path = <<"prepare_filename(info)">>
        /\ (Made("download:ok") /\ answer.filepath # "exists" /\ ~answer.estimated) =>
              /\ outcome = "raised"
              /\ error.kind = "Exception"
              /\ error.stage = "path"
              /\ result_path = <<>>

\* the reported file is gone and the predicted one exists: the predicted
\* name is returned
C22_Witness ==
    /\ op = "download_video_by_format_id"
    /\ Made("download:ok")
    /\ answer.filepath = "gone"
    /\ answer.estimated
    /\ outcome = "returned"
    /\ result_path = <<"prepare_filename(info)">>

\* the ids of video_info.formats, in their order
AvailableFormatIds == [i \in 1..Len(formats) |-> formats[i].format_id]

\* the names of the quality options, in their order
AvailableQualities == [i \in 1..Len(options) |-> options[i].name]

InSeq(x, xs) == \E i \in 1..Len(xs) : xs[i] = x

\* the metadata fetch the operation starts with returned
FirstFetchOk == calls # <<>> /\ calls[1] = "extract_info:ok"

\* C24: download_video_by_format_id with an id that no format of the
\* metadata has, and download_by_quality with a name that no quality option
\* has, raise a failure whose message lists the available ids or names, and
\* submit no download.
C24_UnknownChoiceFailsBeforeSubmission ==
    /\ (/\ op = "download_video_by_format_id"
        /\ FirstFetchOk
        /\ ~InSeq(args.format_id, AvailableFormatIds)) =>
           /\ outcome = "raised"
           /\ error.stage = "invalid_format_id"
           /\ error.names = AvailableFormatIds
           /\ request = <<>>
           /\ ~Submitted
    /\ (/\ op = "download_by_quality"
        /\ FirstFetchOk
        /\ ~InSeq(args.quality, AvailableQualities)) =>
           /\ outcome = "raised"
           /\ error.stage = "not_available"
           /\ error.names = AvailableQualities
           /\ request = <<>>
           /\ ~Submitted

\* the tier 8K is asked of a video that offers 1080p, 720p and Audio Only
C24_Witness ==
    /\ op = "download_by_quality"
    /\ args.quality = "8K"
    /\ outcome = "raised"
    /\ error.names = <<"1080p", "720p", "Audio Only">>
    /\ request = <<>>

\* the positions of the option list that hold a video tier
TierPositions == {i \in 1..Len(options) : options[i].name # "Audio Only"}

OnlyOffLadderVideo ==
    /\ VideoHeights # {}
    /\ \A h \in VideoHeights :
          \A T \in {2160, 1440, 1080, 720, 480, 360} : Abs(h - T) > 50

\* C27: when the metadata has video streams but every video height is more
\* than 50 pixels away from every ladder target, the quality options are
\* the entry Audio Only alone and download_best_quality_with_audio raises
\* "No video formats available" and submits no download.
C27_OffLadderVideoIsNotOffered ==
    (op = "download_best_quality_with_audio" /\ FirstFetchOk /\ OnlyOffLadderVideo) =>
        /\ options = <<AudioOnlyOption>>
        /\ outcome = "raised"
        /\ error.stage = "no_video_formats"
        /\ request = <<>>
        /\ ~Submitted

\* a video whose only stream is 900 pixels high
C27_Witness ==
    /\ op = "download_best_quality_with_audio"
    /\ FirstFetchOk
    /\ Len(formats) = 1
    /\ formats[1].height = <<900>>
    /\ formats[1].vcodec = "avc1"
    /\ options = <<AudioOnlyOption>>
    /\ error.stage = "no_video_formats"

\* C28: without FFmpeg every download_by_quality call that finds its tier,
\* the tier Audio Only included, fails with the failure of the FFmpeg
\* check, and no operation that works through a selector submits a
\* download.
C28_MuxerCheckIsUnconditional ==
    /\ (/\ op = "download_by_quality"
        /\ ~ffmpeg
        /\ FirstFetchOk
        /\ InSeq(args.quality, AvailableQualities)) =>
           /\ outcome = "raised"
           /\ error.stage = "ffmpeg"
           /\ calls = <<"extract_info:ok", "check_executable:missing">>
           /\ request = <<>>
    /\ (op \in SelectorOps /\ ~ffmpeg) => (request = <<>> /\ ~Submitted)

\* the tier Audio Only is asked for on a host without FFmpeg
C28_Witness ==
    /\ op = "download_by_quality"
    /\ ~ffmpeg
    /\ args.quality = "Audio Only"
    /\ outcome = "raised"
    /\ error.stage = "ffmpeg"
    /\ request = <<>>

-----------------------------------------------------------------------------
(* The claims about _progress_hook *)

\* the record delivered for the event
Record == delivered[1]

\* two floats are the same number
SameNumber(x, y) == x.num * y.den = y.num * x.den

\* x <= y
AtMost(x, y) == x.num * y.den <= y.num * x.den

Has(key) == key \in DOMAIN event

\* the event carries a number other than None under the key
HasNumber(key) == Has(key) /\ event[key] # None

\* the total of the event: total_bytes, else total_bytes_estimate
KnownTotal ==
    IF HasNumber("total_bytes") /\ event["total_bytes"][1] # 0
    THEN event["total_bytes"]
    ELSE IF HasNumber("total_bytes_estimate") THEN event["total_bytes_estimate"]
    ELSE <<>>

\* the value copied from a key of the event, None when the key is missing
Copied(key) == IF Has(key) THEN event[key] ELSE NoValue

DeliveredFor(status) ==
    /\ delivered # <<>>
    /\ Has("status")
    /\ event["status"] = status

C18_DoneRecordsAreComplete ==
    (delivered # <<>> /\ Record.status \in {"finished", "merging"}) =>
        /\ SameNumber(Record.percentage, Frac(100, 1))
        /\ Record.filename = Copied("filename")

\* a merging event with byte counts that would give 25 and a filename
C18_Witness ==
    /\ op = "_progress_hook"
    /\ event = [status |-> "merging", downloaded_bytes |-> <<50>>,
                total_bytes |-> <<200>>, filename |-> "a.mp4"]
    /\ delivered # <<>>
    /\ Record.status = "merging"
    /\ Record.filename = "a.mp4"
    /\ SameNumber(Record.percentage, Frac(100, 1))

\* C19 as stated: the percentage of every delivered record lies between 0
\* and 100.
C19_PercentageWithinRange ==
    delivered # <<>> =>
        /\ AtMost(Frac(0, 1), Record.percentage)
        /\ AtMost(Record.percentage, Frac(100, 1))

HookRanOnDownloading ==
    /\ op = "_progress_hook"
    /\ progress_callback # NoCallback
    /\ Has("status")
    /\ event["status"] = "downloading"

PositiveTotal == KnownTotal # <<>> /\ KnownTotal[1] > 0

\* C30: on a 'downloading' event the hook raises and delivers no record
\* when there is no positive total and _percent_str is not a string, and
\* when there is a positive total and downloaded_bytes is None; a
\* _percent_str that is a string but no number gives a delivered record
\* with the percentage 0.
C30_GuardCoversOnlyTheConversion ==
    HookRanOnDownloading =>
        /\ (~PositiveTotal /\ Has("_percent_str") /\ ~event["_percent_str"].str) =>
              /\ outcome = "raised"
              /\ error.kind = "AttributeError"
              /\ delivered = <<>>
        /\ (PositiveTotal /\ Has("downloaded_bytes") /\ event["downloaded_bytes"] = None) =>
              /\ outcome = "raised"
              /\ error.kind = "TypeError"
              /\ delivered = <<>>
        /\ (/\ ~PositiveTotal
            /\ Has("_percent_str")
            /\ event["_percent_str"].str
            /\ event["_percent_str"].chars
                   \in {<<"N", "/", "A">>, <<"1", ".", "2", ".", "3">>, <<>>}) =>
              /\ outcome = "returned"
              /\ delivered # <<>>
              /\ SameNumber(Record.percentage, Frac(0, 1))

\* a percent string that is no string, without byte counts
C30_Witness ==
    /\ HookRanOnDownloading
    /\ event = [status |-> "downloading", _percent_str |-> NotStr]
    /\ outcome = "raised"
    /\ error.kind = "AttributeError"
    /\ delivered = <<>>

-----------------------------------------------------------------------------
(* The claims about the relay of progress events and validate_url *)

\* the events that arrived while a callback was registered
Relayed == SelectSeq(arrived, LAMBDA a : a.registered # NoCallback)

\* C21 as stated: every event that arrives while a callback is registered
\* causes one call of the callback registered at that time, in the order of
\* arrival, and no call of any other callback; an event that arrives while
\* none is registered causes no call and no error.
C21_EveryEventReachesTheCurrentCallback ==
    /\ Len(invocations) = Len(Relayed)
    /\ \A i \in 1..Len(invocations) :
          /\ invocations[i].callback = Relayed[i].registered
          /\ invocations[i].progress.hook_data = Relayed[i].event
    /\ \A i \in 1..Len(arrived) : ~arrived[i].raised

\* C23: a call of validate_url never raises, makes exactly one metadata
\* probe, returns True exactly when the probe succeeded and False when it
\* failed, and leaves the registered callback and the directories as they
\* were.
C23_ValidateUrlProbesOnceAndReturns ==
    [][op' = "validate_url" =>
          /\ outcome' = "returned"
          /\ Len(calls') = 1
          /\ calls'[1] \in {"extract_info:ok", "extract_info:failed"}
          /\ valid' = "True" <=> calls'[1] = "extract_info:ok"
          /\ valid' = "False" <=> calls'[1] = "extract_info:failed"
          /\ progress_callback' = progress_callback
          /\ dirs' = dirs
          /\ constructed' = constructed]_vars

\* a failed probe with a callback registered: False is returned
C23_Witness ==
    /\ op = "validate_url"
    /\ outcome = "returned"
    /\ valid = "False"
    /\ calls = <<"extract_info:failed">>
    /\ progress_callback = "second_callback"

-----------------------------------------------------------------------------
(* The claims about the web dashboard *)

\* the script run has passed the download handlers
PastHandlers == pc \in {"progress display", "tabs", "auto refresh", "idle"}

\* C26: is_downloading is True only while a download handler waits for its
\* download; it is False whenever a script run stands at the progress
\* display, at the auto-refresh check or at its end, whether the download
\* returned or raised; no run renders the progress panel and no run ends
\* with the auto-refresh rerun.
C26_FlagIsResetBeforeTheProgressDisplay ==
    /\ pc \in {"downloading", "download raised"} => session.is_downloading
    /\ PastHandlers => ~session.is_downloading
    /\ ~InSeq("progress panel", run_log)
    /\ ~InSeq("auto rerun", run_log)

\* a run reaches the progress display after a download that raised, with a
\* progress record of the download left in the session
C26_Witness ==
    /\ pc = "progress display"
    /\ InSeq("audio_only", run_log)
    /\ InSeq("st.error", run_log)
    /\ session.download_progress = "downloading"
    /\ ~session.is_downloading

IsPlaylistWithEntries(url) ==
    /\ url \in DOMAIN Catalog
    /\ Catalog[url].has_entries
    /\ Catalog[url].entries # <<>>

IsSingleVideo(url) == url \in DOMAIN Catalog /\ ~Catalog[url].has_entries

\* C29: in the URL block of a script run, a valid playlist URL with an entry
\* is always fetched; when the fetch returns, the cached metadata carries
\* the URL of the first entry, not the playlist URL, so the cache test stays
\* true for the playlist URL.  A valid single-video URL is fetched when the
\* cache holds no metadata of it, the returned metadata carries that URL,
\* and is not fetched when the cache does; no other block changes the
\* cached metadata.
C29_PlaylistIsFetchedInEveryRun ==
    [][/\ (pc = "url section" /\ InSeq("validate_url: True", run_log')) =>
           /\ IsPlaylistWithEntries(url_input) =>
                 /\ InSeq("get_video_info", run_log')
                 /\ InSeq("get_available_quality_options", run_log') =>
                       /\ session'.video_info =
                              Some([url |-> FirstEntryUrl(Catalog[url_input])])
                       /\ session'.video_info[1].url # url_input
                 /\ CacheMiss(session', url_input)
           /\ (IsSingleVideo(url_input) /\ CacheMiss(session, url_input)) =>
                 /\ InSeq("get_video_info", run_log')
                 /\ InSeq("get_available_quality_options", run_log') =>
                       ~CacheMiss(session', url_input)
           /\ (IsSingleVideo(url_input) /\ ~CacheMiss(session, url_input)) =>
                 /\ ~InSeq("get_video_info", run_log')
                 /\ ~InSeq("get_available_quality_options", run_log')
                 /\ session' = session
       /\ pc # "url section" => session'.video_info = session.video_info]_vars

\* a rerun with the playlist URL left in the input has fetched the metadata
\* again, and the cache holds the URL of the first entry
C29_Witness ==
    /\ pc = "handlers"
    /\ url_input = PlaylistUrl("p")
    /\ InSeq("input unchanged", run_log)
    /\ InSeq("get_video_info", run_log)
    /\ InSeq("st.success", run_log)
    /\ session.video_info = Some([url |-> WatchUrl("b")])
====
